---- MODULE Spec2Model ----
(***************************************************************************)
(* Model of the chinook-demo backend: the Flask routes of                  *)
(* app/routes/chat.py and the DevboxManager of app/devbox/manager.py,      *)
(* against a remote devbox service reached through the Runloop client.     *)
(*                                                                         *)
(* Every remote call (retrieve, create_and_await_running, upload_file,     *)
(* execute_sync, write_file_contents) is one atomic step of the remote     *)
(* service; the requests of the threaded server interleave between them.   *)
(* A remote call may fail with a transport error at any time.              *)
(***************************************************************************)
EXTENDS Integers, Sequences, FiniteSets, TLC

\* ------------------------------------------------------------------ bounds
NumRequests == 2
MaxLen == 5
MaxFields == 3
MaxRecords == 2

Requests == 1..NumRequests

\* Session ids: 0 is the id configured in DEVBOX_ID, 1.. are the ids the
\* service assigns to sessions it creates (one per request at most).
Ids == 0..NumRequests
NoId == -1

Statuses == {"absent", "suspended", "shutdown", "running"}

\* ------------------------------------------------------- text and values
\* Text is a sequence of one-character strings.
Alphabet == {"[", "]", "1", ",", " ", "x"}

RECURSIVE TextsOfLen(_)
TextsOfLen(n) ==
    IF n = 0 THEN {<<>>}
    ELSE {Append(t, c) : t \in TextsOfLen(n - 1), c \in Alphabet}

AllTexts == UNION {TextsOfLen(n) : n \in 0..MaxLen}

\* A parsed JSON value: a number or an array of values.
NullTree == [k |-> "null", n |-> 0, items |-> <<>>]
NumTree(v) == [k |-> "num", n |-> v, items |-> <<>>]
ArrTree(xs) == [k |-> "arr", n |-> 0, items |-> xs]

\* What run_mcp_query returns: the parsed array, or {"raw_output": text}.
NoData == [kind |-> "none", tree |-> NullTree, raw |-> <<>>]
ArrayData(t) == [kind |-> "array", tree |-> t, raw |-> <<>>]
RawOutput(text) == [kind |-> "raw_output", tree |-> NullTree, raw |-> text]
TextData(text) == [kind |-> "text", tree |-> NullTree, raw |-> text]

\* ------------------------------------------------------------------ state
VARIABLES
    sessions,    \* remote service: status of every session id
    nextId,      \* remote service: the id the next created session gets
    uploaded,    \* remote service: files uploaded into each session
    script,      \* remote service: /home/user/visualization.py of each session
    environ,     \* os.environ["DEVBOX_ID"] of the server process
    config,      \* current_app.config['DEVBOX_ID']
    localFiles,  \* the files present in MCP_FILES_DIR
    req          \* per request: position, manager fields, history, response

vars == <<sessions, nextId, uploaded, script, environ, config, localFiles, req>>

remote == <<sessions, nextId, uploaded, script>>
process == <<environ, config, localFiles>>

\* --------------------------------------------------- Python text helpers
\* str.find: the lowest 0-based index of c in s, or -1.
RECURSIVE FindFrom(_, _, _)
FindFrom(s, c, i) ==
    IF i > Len(s) THEN -1
    ELSE IF s[i] = c THEN i - 1
    ELSE FindFrom(s, c, i + 1)

Find(s, c) == FindFrom(s, c, 1)

\* str.rfind: the highest 0-based index of c in s, or -1.
RECURSIVE RFindFrom(_, _, _)
RFindFrom(s, c, i) ==
    IF i < 1 THEN -1
    ELSE IF s[i] = c THEN i - 1
    ELSE RFindFrom(s, c, i - 1)

RFind(s, c) == RFindFrom(s, c, Len(s))

\* s[a:b] for 0 <= a <= b <= len(s).
Slice(s, a, b) == SubSeq(s, a + 1, b)

\* ------------------------------------------------------------ json.loads
\* The decoder over the model's alphabet: whitespace, numbers made of the
\* digit 1, and arrays.  json.loads raises JSONDecodeError unless the whole
\* text is one value.
Fail == [ok |-> FALSE, tree |-> NullTree, next |-> 0]

RECURSIVE SkipWs(_, _)
SkipWs(s, i) ==
    IF i <= Len(s) /\ s[i] = " " THEN SkipWs(s, i + 1) ELSE i

RECURSIVE DigitsEnd(_, _)
DigitsEnd(s, i) ==
    IF i <= Len(s) /\ s[i] = "1" THEN DigitsEnd(s, i + 1) ELSE i

RECURSIVE Ones(_)
Ones(n) == IF n = 0 THEN 0 ELSE 10 * Ones(n - 1) + 1

RECURSIVE ParseValue(_, _)
RECURSIVE ParseItems(_, _, _, _)

ParseValue(s, i) ==
    IF i > Len(s) THEN Fail
    ELSE IF s[i] = "1"
        THEN LET j == DigitsEnd(s, i)
             IN  [ok |-> TRUE, tree |-> NumTree(Ones(j - i)), next |-> j]
    ELSE IF s[i] = "["
        THEN ParseItems(s, SkipWs(s, i + 1), <<>>, TRUE)
    ELSE Fail

ParseItems(s, i, acc, first) ==
    IF i > Len(s) THEN Fail
    ELSE IF first /\ s[i] = "]"
        THEN [ok |-> TRUE, tree |-> ArrTree(acc), next |-> i + 1]
    ELSE LET v == ParseValue(s, i)
             j == IF v.ok THEN SkipWs(s, v.next) ELSE 0
         IN  IF ~v.ok \/ j > Len(s) THEN Fail
             ELSE IF s[j] = ","
                 THEN ParseItems(s, SkipWs(s, j + 1), Append(acc, v.tree), FALSE)
             ELSE IF s[j] = "]"
                 THEN [ok |-> TRUE, tree |-> ArrTree(Append(acc, v.tree)),
                       next |-> j + 1]
             ELSE Fail

JsonLoads(s) ==
    LET v == ParseValue(s, SkipWs(s, 1))
    IN  IF v.ok /\ SkipWs(s, v.next) > Len(s)
        THEN [ok |-> TRUE, tree |-> v.tree]
        ELSE [ok |-> FALSE, tree |-> NullTree]

\* ------------------------------------- run_mcp_query: output extraction
Returned(d) == [raised |-> FALSE, data |-> d]
Raised == [raised |-> TRUE, data |-> NoData]

ArrayStart(output) == Find(output, "[")

ArrayEndFirstBracket(output) == Find(output, "]") + 1

ArrayEnd(output) == RFind(output, "]") + 1

OnDecodeErrorPropagate(output) == Raised

\* except json.JSONDecodeError: data = {"raw_output": output}
OnDecodeError(output) == Returned(RawOutput(output))

ExtractJson(output) ==
    LET array_start == ArrayStart(output)
        array_end == ArrayEnd(output)
    IN  IF array_start >= 0 /\ array_end > array_start
        THEN LET parsed == JsonLoads(Slice(output, array_start, array_end))
             IN  IF parsed.ok THEN Returned(ArrayData(parsed.tree))
                 ELSE OnDecodeError(output)
        ELSE Returned(RawOutput(output))

\* ------------------------------------------------------ request records
\* request.json.get(key): None, or the text sent.
None == [isNone |-> TRUE, s |-> ""]
Str(t) == [isNone |-> FALSE, s |-> t]
BodyValues == {None, Str(""), Str("q")}

\* Python truth of a value of the request body.
Falsy(v) == v.isNone \/ v.s = ""

\* The fixed required_files mapping, in its iteration order.
RequiredFiles == <<"Chinook_Sqlite.sqlite", "client.py", "server.py", ".env">>
FileIdx == 1..Len(RequiredFiles)

\* What the remote commands can print.
SampleOutputs == {<<"[", "1", "]">>, <<"x", "[", "1", "]", " ">>,
                  <<"[", "x", "]">>, <<"x">>}
Stderrs == {"", "warning"}

Step(op, id, file, ok) == [op |-> op, id |-> id, file |-> file, ok |-> ok]

\* No payload analysed yet, and no analysis text.
NoPayload == [shape |-> "none", len |-> 0, first |-> <<>>]

NoAnalysis ==
    [kind |-> "none", n |-> 0, numeric |-> <<>>, date |-> <<>>,
     categorical |-> <<>>, suggestions |-> <<>>]

FreshReq ==
    [pc |-> "idle", route |-> "none", query |-> None, devbox_id |-> NoId,
     res |-> "none", seen |-> "none", constructed |-> "no", idx |-> 1,
     files_uploaded |-> FALSE,
     steps |-> <<>>, script_code |-> 0, ran |-> 0,
     stdout |-> <<>>, stderr |-> "", outcome |-> "none",
     code |-> 0, error |-> "", data |-> NoData,
     payload |-> NoPayload, analysis |-> NoAnalysis,
     env_at_start |-> NoId]

Log(q, st) == [q EXCEPT !.steps = Append(@, st)]

\* jsonify(...), status: the route answers.
Respond(q, code, error, data) ==
    [q EXCEPT !.pc = "done", !.code = code, !.error = error, !.data = data]

\* An exception leaves the manager; a route catches it at chat.py:31/88 and
\* answers 500 with str(e).  A direct caller sees it raised.
Raise(q, msg) ==
    [q EXCEPT !.pc = "done", !.outcome = "raised", !.error = msg,
              !.code = IF q.route = "call" THEN 0 ELSE 500,
              !.constructed = IF q.constructed = "no" /\ q.route # "call"
                              THEN "raised" ELSE @]

\* ---------------------------------------------------- decisions of the code
QueryMissingNoneOnly(query) == query.isNone

\* chat.py:15  if not query
QueryMissing(query) == Falsy(query)

\* The methods class VisualizationManager defines.
VisualizationManagerMethods ==
    {"__init__", "analyze_data_structure", "generate_visualization_code",
     "visualize_query_results"}

\* devboxes.retrieve(id): the Devbox view of a session the service knows.
\* For an id it does not know the client raises NotFoundError (HTTP 404);
\* a client that answers None instead is covered as the other outcome.
RetrieveResults(status) ==
    IF status = "absent" THEN {"NotFoundError", "None"} ELSE {status}

IsException(x) == x \in {"APIError", "NotFoundError"}

StepOutcomeSwallow(ok, next) == next

\* try: <remote call> except Exception: logger.error(...); raise
StepOutcome(ok, next) == IF ok THEN next ELSE "raise"

\* init_devbox, from the lookup's result to its branch.  Line 22 reads
\* res.status before line 23 tests `not res`; a Devbox view is truthy.
\* resume_devbox is a coroutine function called without await: the call
\* builds a coroutine object that never runs, so await_running is not issued.
InitDevbox(res) ==
    IF res = "None" THEN "AttributeError"
    ELSE IF res = "suspended" THEN "coroutine"
    ELSE IF res = "shutdown" THEN "create"
    ELSE "noop"

AfterConstructSkipUpload(route) == IF route = "visualize" THEN "write" ELSE "ls"

\* What the route does with the constructed manager.
AfterConstruct(route) == IF route = "visualize" THEN "write" ELSE "upload"

OnMissingFileContinue(next) == next

\* manager.py:114-116  raise FileNotFoundError
OnMissingFile(next) == "raise"

LocalFileExists(files, f) == f \in files

StderrIgnored(stderr) == FALSE

\* manager.py:212  if result.stderr
StderrFails(stderr) == stderr # ""

\* ------------------------------------------------------------- the routes
\* POST /api/query, chat.py:12-22: validation, then DevboxManager.__init__
\* up to its first remote call.
HandleQuery(r) ==
    /\ req[r].pc = "idle"
    /\ \E query \in BodyValues :
         LET q == [req[r] EXCEPT !.route = "query", !.query = query,
                                  !.env_at_start = environ]
         IN  req' = [req EXCEPT ![r] =
                 IF QueryMissing(query)
                 THEN Respond(q, 400, "No query provided", NoData)
                 ELSE [q EXCEPT !.devbox_id = config, !.pc = "retrieve"]]
    /\ UNCHANGED <<remote, process>>

\* POST /api/visualize, chat.py:54-78: validation, VisualizationManager(),
\* the call of get_visualization_data, then DevboxManager.__init__ up to its
\* first remote call.
HandleVisualize(r) ==
    /\ req[r].pc = "idle"
    /\ \E data \in BodyValues, visualization_type \in BodyValues :
         LET q == [req[r] EXCEPT !.route = "visualize", !.query = data,
                                  !.env_at_start = environ]
         IN  req' = [req EXCEPT ![r] =
                 IF Falsy(data) \/ Falsy(visualization_type)
                 THEN Respond(q, 400,
                         "Both data and visualization_type are required", NoData)
                 ELSE IF "get_visualization_data" \notin VisualizationManagerMethods
                 THEN Raise([q EXCEPT !.constructed = "never"], "AttributeError")
                 ELSE [q EXCEPT !.script_code = r, !.devbox_id = config,
                                !.pc = "retrieve"]]
    /\ UNCHANGED <<remote, process>>

\* ------------------------------------------------- DevboxManager.__init__
\* init_devbox: check_devbox_exists (devboxes.retrieve) and the branch on
\* its result, up to the next remote call.
CheckDevboxExists(r) ==
    /\ req[r].pc = "retrieve"
    /\ \E x \in {"APIError"} \cup RetrieveResults(sessions[req[r].devbox_id]) :
         LET q == [Log(req[r],
                       Step("retrieve", req[r].devbox_id, 0, ~IsException(x)))
                     EXCEPT !.res = x,
                            !.seen = IF x = "APIError" THEN "none"
                                     ELSE sessions[req[r].devbox_id]]
             res == IF ~IsException(x) THEN x
                    ELSE IF StepOutcome(FALSE, "return") = "raise" THEN "raise"
                    ELSE "None"
             branch == InitDevbox(res)
         IN  req' = [req EXCEPT ![r] =
                 IF res = "raise" THEN Raise(q, x)
                 ELSE IF branch = "AttributeError" THEN Raise(q, "AttributeError")
                 ELSE IF branch = "create" THEN [q EXCEPT !.pc = "create"]
                 ELSE [q EXCEPT !.constructed = "returned",
                                !.pc = AfterConstruct(q.route)]]
    /\ UNCHANGED <<remote, process>>

\* create_devbox: devboxes.create_and_await_running, then the new id is
\* stored in self.devbox_id and in os.environ["DEVBOX_ID"].
CreateDevbox(r) ==
    /\ req[r].pc = "create"
    /\ nextId \in Ids
    /\ \E ok \in BOOLEAN :
         LET q == Log(req[r], Step("create", IF ok THEN nextId ELSE NoId, 0, ok))
             next == AfterConstruct(q.route)
         IN  /\ req' = [req EXCEPT ![r] =
                   IF StepOutcome(ok, next) = "raise" THEN Raise(q, "APIError")
                   ELSE [q EXCEPT !.constructed = "returned", !.pc = next,
                                  !.devbox_id = IF ok THEN nextId ELSE @]]
             /\ sessions' = IF ok THEN [sessions EXCEPT ![nextId] = "running"]
                            ELSE sessions
             /\ nextId' = IF ok THEN nextId + 1 ELSE nextId
             /\ environ' = IF ok THEN nextId ELSE environ
    /\ UNCHANGED <<uploaded, script, config, localFiles>>

\* ------------------------------------------------------ ensure_mcp_files
\* The end of one iteration: the next file, or the return to the route,
\* which runs the query only if files_uploaded (chat.py:26-29).
AdvanceFile(q) ==
    IF q.idx < Len(RequiredFiles) THEN [q EXCEPT !.idx = @ + 1]
    ELSE IF q.files_uploaded THEN [q EXCEPT !.pc = "ls"]
    ELSE Raise(q, "UnboundLocalError")

\* One iteration of the loop over required_files: the local existence check
\* and, if the file is there, its upload_file call.
UploadFile(r) ==
    /\ req[r].pc = "upload"
    /\ LET q == req[r]
           i == q.idx
       IN  IF ~LocalFileExists(localFiles, i)
           THEN /\ req' = [req EXCEPT ![r] =
                      LET q1 == Log(q, Step("exists", NoId, i, FALSE))
                      IN  IF OnMissingFile("continue") = "raise"
                          THEN Raise(q1, "FileNotFoundError")
                          ELSE AdvanceFile(q1)]
                /\ UNCHANGED uploaded
           ELSE \E ok \in BOOLEAN :
                  /\ req' = [req EXCEPT ![r] =
                        LET q1 == Log(q, Step("upload", q.devbox_id, i, ok))
                        IN  IF StepOutcome(ok, "continue") = "raise"
                            THEN Raise(q1, "APIError")
                            ELSE AdvanceFile(
                                   [q1 EXCEPT !.files_uploaded = @ \/ ok])]
                  /\ uploaded' = IF ok
                                 THEN [uploaded EXCEPT ![q.devbox_id] = @ \cup {i}]
                                 ELSE uploaded
    /\ UNCHANGED <<sessions, nextId, script, process>>

\* --------------------------------------------------------- run_mcp_query
\* manager.py:151  execute_sync(command="ls")
ExecuteLs(r) ==
    /\ req[r].pc = "ls"
    /\ \E ok \in BOOLEAN :
         LET q == Log(req[r], Step("execute_ls", req[r].devbox_id, 0, ok))
         IN  req' = [req EXCEPT ![r] =
                 IF StepOutcome(ok, "exec") = "raise" THEN Raise(q, "APIError")
                 ELSE [q EXCEPT !.pc = "exec"]]
    /\ UNCHANGED <<remote, process>>

QueryStderrFatal(stderr) == stderr # ""

\* manager.py:164  result.stderr is written to the log and not tested.
QueryStderrFails(stderr) == FALSE

\* The value run_mcp_query hands back, and the route's jsonify(result).
QueryReturn(q, x) ==
    IF QueryStderrFails(q.stderr) THEN Raise(q, "RuntimeError")
    ELSE IF x.raised THEN Raise(q, "JSONDecodeError")
    ELSE [q EXCEPT !.pc = "done", !.outcome = "returned", !.data = x.data,
                   !.code = IF q.route = "call" THEN 0 ELSE 200]

\* manager.py:155-181  execute_sync(command=cmd), then the extraction of
\* the JSON array from result.stdout.  result.stderr is only logged.
ExecuteQuery(r, outputs) ==
    /\ req[r].pc = "exec"
    /\ \E ok \in BOOLEAN :
         LET q == Log(req[r], Step("execute_query", req[r].devbox_id, 0, ok))
         IN  IF StepOutcome(ok, "extract") = "raise"
             THEN req' = [req EXCEPT ![r] = Raise(q, "APIError")]
             ELSE \E out \in IF ok THEN outputs ELSE {<<>>},
                     err \in IF ok THEN Stderrs ELSE {""} :
                    req' = [req EXCEPT ![r] =
                        QueryReturn([q EXCEPT !.stdout = out, !.stderr = err],
                                    ExtractJson(out))]
    /\ UNCHANGED <<remote, process>>

\* ------------------------------------------------ run_visualization_code
\* manager.py:194-198  write_file_contents("/home/user/visualization.py")
WriteScript(r) ==
    /\ req[r].pc = "write"
    /\ \E ok \in BOOLEAN :
         LET q == Log(req[r], Step("write_file", req[r].devbox_id, 0, ok))
         IN  /\ req' = [req EXCEPT ![r] =
                   IF StepOutcome(ok, "vexec") = "raise" THEN Raise(q, "APIError")
                   ELSE [q EXCEPT !.pc = "vexec"]]
             /\ script' = IF ok
                          THEN [script EXCEPT ![q.devbox_id] = q.script_code]
                          ELSE script
    /\ UNCHANGED <<sessions, nextId, uploaded, process>>

\* What run_visualization_code hands back, and chat.py:84-86:
\* json.loads(result), jsonify.
ScriptReturn(q) ==
    IF StderrFails(q.stderr) THEN Raise(q, "RuntimeError")
    ELSE IF q.route = "call"
        THEN [q EXCEPT !.pc = "done", !.outcome = "returned",
                       !.data = TextData(q.stdout)]
    ELSE LET parsed == JsonLoads(q.stdout)
         IN  IF parsed.ok
             THEN [q EXCEPT !.pc = "done", !.outcome = "returned",
                            !.data = ArrayData(parsed.tree), !.code = 200]
             ELSE Raise(q, "JSONDecodeError")

\* manager.py:204-216  execute_sync("python visualization.py"): the
\* interpreter runs whatever the file holds when the command runs.
ExecuteScript(r) ==
    /\ req[r].pc = "vexec"
    /\ \E ok \in BOOLEAN :
         LET q == Log(req[r], Step("execute_script", req[r].devbox_id, 0, ok))
         IN  IF StepOutcome(ok, "check") = "raise"
             THEN req' = [req EXCEPT ![r] = Raise(q, "APIError")]
             ELSE \E out \in IF ok THEN SampleOutputs ELSE {<<>>},
                     err \in IF ok THEN Stderrs ELSE {""} :
                    req' = [req EXCEPT ![r] =
                        ScriptReturn([q EXCEPT !.stdout = out, !.stderr = err,
                                       !.ran = script[q.devbox_id]])]
    /\ UNCHANGED <<remote, process>>

\* ------------------------------------------------ analyze_data_structure
\* Field names are texts; the letters the names use in upper case.
UpperCase == <<"D", "E", "I", "M", "T">>
LowerCase == <<"d", "e", "i", "m", "t">>

\* str.lower
LowerChar(c) ==
    IF \E i \in 1..Len(UpperCase) : UpperCase[i] = c
    THEN LowerCase[CHOOSE i \in 1..Len(UpperCase) : UpperCase[i] = c]
    ELSE c

Lower(s) == [i \in 1..Len(s) |-> LowerChar(s[i])]

\* sub in s
Contains(sub, s) ==
    \E i \in 0..(Len(s) - Len(sub)) : SubSeq(s, i + 1, i + Len(sub)) = sub

NameSaleDate == <<"s", "a", "l", "e", "_", "d", "a", "t", "e">>
NameTime == <<"T", "I", "M", "E">>
NameAmount == <<"a", "m", "o", "u", "n", "t">>
NameRegion == <<"r", "e", "g", "i", "o", "n">>
FieldNames == {NameSaleDate, NameTime, NameAmount, NameRegion}

\* The Python type a JSON value decodes to.
ValueTypes == {"int", "float", "str", "bool", "NoneType"}

\* The records json.loads can give: fields in document order, names distinct.
RECURSIVE RecordsOfLen(_)
RecordsOfLen(n) ==
    IF n = 0 THEN {<<>>}
    ELSE UNION {{Append(rec, [name |-> nm, type |-> t]) :
                     nm \in FieldNames \ {rec[i].name : i \in 1..Len(rec)},
                     t \in ValueTypes} :
                rec \in RecordsOfLen(n - 1)}

Records == UNION {RecordsOfLen(n) : n \in 0..MaxFields}

\* query_response: text that is no JSON, an empty value, a non-empty value
\* that is no list of records, or a list of len records with a first one.
Payloads ==
    {[shape |-> sh, len |-> 0, first |-> <<>>] : sh \in {"invalid", "empty", "other"}}
    \cup {[shape |-> "records", len |-> n, first |-> rec] :
              n \in 1..MaxRecords, rec \in Records}

\* isinstance(value, (int, float)): bool is a subclass of int.
IsNumber(t) == t \in {"int", "float", "bool"}

IsDateNameCaseSensitive(name) ==
    Contains(<<"d", "a", "t", "e">>, name) \/ Contains(<<"t", "i", "m", "e">>, name)

\* 'date' in field.lower() or 'time' in field.lower()
IsDateName(name) ==
    Contains(<<"d", "a", "t", "e">>, Lower(name))
        \/ Contains(<<"t", "i", "m", "e">>, Lower(name))

Names(fields) == [i \in 1..Len(fields) |-> fields[i].name]

\* visualization_manager.py:68-76
Suggestions(numeric, date, categorical) ==
    (IF date # <<>> /\ numeric # <<>>
         THEN <<"Time series plots for temporal analysis">> ELSE <<>>)
    \o (IF Len(numeric) >= 2
         THEN <<"Scatter plots or line charts for numeric relationships">>
         ELSE <<>>)
    \o (IF categorical # <<>> /\ numeric # <<>>
         THEN <<"Bar charts or box plots for categorical-numeric relationships">>
         ELSE <<>>)
    \o (IF categorical # <<>>
         THEN <<"Pie charts or bar charts for categorical distributions">>
         ELSE <<>>)

\* analyze_data_structure: the text it returns, line by line (a line of
\* fields or suggestions is written only when its list is not empty).
AnalyzeDataStructure(p) ==
    IF p.shape = "invalid" THEN [NoAnalysis EXCEPT !.kind = "error"]
    ELSE IF p.shape = "empty" THEN [NoAnalysis EXCEPT !.kind = "Empty dataset"]
    ELSE IF p.shape = "other" THEN [NoAnalysis EXCEPT !.kind = "error"]
    ELSE LET numeric == Names(SelectSeq(p.first, LAMBDA f : IsNumber(f.type)))
             date == Names(SelectSeq(p.first,
                        LAMBDA f : ~IsNumber(f.type) /\ f.type = "str"
                                   /\ IsDateName(f.name)))
             categorical == Names(SelectSeq(p.first,
                        LAMBDA f : ~IsNumber(f.type) /\ f.type = "str"
                                   /\ ~IsDateName(f.name)))
         IN  [kind |-> "analysis", n |-> p.len, numeric |-> numeric,
              date |-> date, categorical |-> categorical,
              suggestions |-> Suggestions(numeric, date, categorical)]

\* A call of analyze_data_structure.
CallAnalyze(r) ==
    /\ req[r].pc = "analyze"
    /\ \E p \in Payloads :
         req' = [req EXCEPT ![r] =
                    [@ EXCEPT !.pc = "done", !.outcome = "returned",
                              !.payload = p,
                              !.analysis = AnalyzeDataStructure(p)]]
    /\ UNCHANGED <<remote, process>>

\* -------------------------------------------------------- specifications
\* The server: requests arrive on the two routes and interleave.
Init ==
    /\ \E st \in Statuses :
         sessions = [i \in Ids |-> IF i = 0 THEN st ELSE "absent"]
    /\ nextId = 1
    /\ uploaded = [i \in Ids |-> {}]
    /\ script = [i \in Ids |-> 0]
    /\ environ = 0
    /\ config = 0
    /\ localFiles \in SUBSET FileIdx
    /\ req = [r \in Requests |-> FreshReq]

Next ==
    \/ \E r \in Requests : HandleQuery(r)
    \/ \E r \in Requests : HandleVisualize(r)
    \/ \E r \in Requests : CheckDevboxExists(r)
    \/ \E r \in Requests : CreateDevbox(r)
    \/ \E r \in Requests : UploadFile(r)
    \/ \E r \in Requests : ExecuteLs(r)
    \/ \E r \in Requests : ExecuteQuery(r, SampleOutputs)

Spec == Init /\ [][Next]_vars

\* A direct caller of a manager method: the manager is constructed on the
\* configured session, which is running.
Caller(entry, code) ==
    [FreshReq EXCEPT !.pc = entry, !.route = "call", !.devbox_id = 0,
                     !.res = "running", !.seen = "running",
                     !.constructed = "returned", !.script_code = code]

InitService ==
    /\ sessions = [i \in Ids |-> IF i = 0 THEN "running" ELSE "absent"]
    /\ nextId = 1
    /\ uploaded = [i \in Ids |-> {}]
    /\ script = [i \in Ids |-> 0]
    /\ environ = 0
    /\ config = 0
    /\ localFiles = FileIdx

\* run_mcp_query applied to every stdout text up to MaxLen characters.
InitQuery ==
    /\ InitService
    /\ req = [r \in Requests |->
                 IF r = 1 THEN Caller("ls", 0) ELSE FreshReq]

NextQuery ==
    \/ \E r \in Requests : ExecuteLs(r)
    \/ \E r \in Requests : ExecuteQuery(r, AllTexts)

SpecQuery == InitQuery /\ [][NextQuery]_vars

\* run_visualization_code called by every request, each with its own code,
\* on the same session.
InitViz ==
    /\ InitService
    /\ req = [r \in Requests |-> Caller("write", r)]

NextViz ==
    \/ \E r \in Requests : WriteScript(r)
    \/ \E r \in Requests : ExecuteScript(r)

SpecViz == InitViz /\ [][NextViz]_vars

\* analyze_data_structure applied to every payload of up to MaxRecords
\* records whose first record has up to MaxFields fields.
InitAnalyze ==
    /\ InitService
    /\ req = [r \in Requests |->
                 IF r = 1 THEN Caller("analyze", 0) ELSE FreshReq]

NextAnalyze == \E r \in Requests : CallAnalyze(r)

SpecAnalyze == InitAnalyze /\ [][NextAnalyze]_vars

\* Both executors called directly on the same session: the first request
\* calls run_mcp_query, the others run_visualization_code.
InitExec ==
    /\ InitService
    /\ req = [r \in Requests |->
                 IF r = 1 THEN Caller("ls", 0) ELSE Caller("write", r)]

NextExec ==
    \/ \E r \in Requests : ExecuteLs(r)
    \/ \E r \in Requests : ExecuteQuery(r, SampleOutputs)
    \/ \E r \in Requests : WriteScript(r)
    \/ \E r \in Requests : ExecuteScript(r)

SpecExec == InitExec /\ [][NextExec]_vars


\* ================================================================ claims
\* Helpers over a request's history.
OpsOf(q, ops) == SelectSeq(q.steps, LAMBDA st : st.op \in ops)
OpNames(steps) == [i \in 1..Len(steps) |-> steps[i].op]
FilesOf(steps) == [i \in 1..Len(steps) |-> steps[i].file]
AllOk(q) == \A i \in 1..Len(q.steps) : q.steps[i].ok
ConstructionEnded(q) == q.constructed \in {"returned", "raised"}
NewSessions == {i \in Ids \ {0} : sessions[i] # "absent"}

\* The action section 4.1 documents for each status.
Documented(st) ==
    CASE st = "absent" -> <<"create">>
      [] st = "suspended" -> <<"resume">>
      [] st = "shutdown" -> <<"create">>
      [] st = "running" -> <<>>

\* C1: a controller whose lookup saw the session absent, suspended, shutdown
\* or running has, when its construction ends, issued exactly the documented
\* action after the lookup: create, resume, create, none.
C1_DocumentedAction ==
    \A r \in Requests :
        (req[r].seen \in Statuses /\ ConstructionEnded(req[r]))
            => OpNames(OpsOf(req[r], {"create", "resume"})) = Documented(req[r].seen)

\* C2: when the construction of the controller has returned, the session of
\* its active id is running, and every upload or command issued by the
\* request went to a running session.
C2_RunningAfterConstruction ==
    \A r \in Requests :
        /\ req[r].constructed = "returned"
               => sessions[req[r].devbox_id] = "running"
        /\ \A i \in 1..Len(req[r].steps) :
               req[r].steps[i].op \in {"upload", "execute_ls", "execute_query"}
                   => sessions[req[r].steps[i].id] = "running"

\* The first required file that is missing locally (0: none is).
FirstMissing ==
    IF localFiles = FileIdx THEN 0
    ELSE CHOOSE m \in FileIdx \ localFiles :
             \A k \in FileIdx \ localFiles : m <= k

\* C4 as written: when one of the four local files is missing, no request
\* issues upload_file for any file, and a request that reaches
\* ensure_mcp_files ends with the not-found error.
C4_NoUploadWhenFileMissing ==
    \A r \in Requests :
        localFiles # FileIdx
            => /\ OpsOf(req[r], {"upload"}) = <<>>
               /\ (req[r].constructed = "returned" /\ req[r].pc = "done")
                      => req[r].error = "FileNotFoundError"

\* C4 amended: when a local file is missing, upload_file is issued only for
\* the files before the first missing one, in the fixed order and once each;
\* the loop stops at the first missing file with the not-found error, unless
\* one of the earlier uploads failed first.
C4_UploadsStopAtFirstMissing ==
    \A r \in Requests :
        localFiles # FileIdx
            => LET ups == OpsOf(req[r], {"upload"})
               IN  /\ Len(ups) < FirstMissing
                   /\ FilesOf(ups) = [i \in 1..Len(ups) |-> i]
                   /\ (req[r].constructed = "returned" /\ req[r].pc = "done")
                          => \/ /\ req[r].error = "FileNotFoundError"
                                /\ req[r].code = 500
                                /\ Len(ups) = FirstMissing - 1
                                /\ OpsOf(req[r], {"execute_ls", "execute_query"}) = <<>>
                             \/ /\ ups # <<>>
                                /\ ~ups[Len(ups)].ok
                                /\ req[r].error = "APIError"

\* C4 witness: the third file is missing, and a request has uploaded the
\* first two and ended with the not-found error.
C4_Witness ==
    \E r \in Requests :
        /\ FirstMissing = 3
        /\ req[r].pc = "done"
        /\ req[r].error = "FileNotFoundError"
        /\ Len(OpsOf(req[r], {"upload"})) = 2

\* C6: a POST /api/query without a query, or with an empty one, is answered
\* 400 {"error": "No query provided"} and has issued no lookup, create,
\* resume, upload or command.
C6_NoQueryIs400 ==
    \A r \in Requests :
        (req[r].route = "query" /\ Falsy(req[r].query))
            => /\ req[r].pc = "done"
               /\ req[r].code = 400
               /\ req[r].error = "No query provided"
               /\ req[r].steps = <<>>

\* C6 witness: one request came without a query and another with an empty
\* one, and both are answered 400.
C6_Witness ==
    \E r1, r2 \in Requests :
        /\ req[r1].route = "query" /\ req[r1].query = None
        /\ req[r2].route = "query" /\ req[r2].query = Str("")
        /\ req[r1].code = 400 /\ req[r2].code = 400

\* C7: a POST /api/visualize with data and visualization_type, a running
\* session and no failing remote step is answered 200 after writing and
\* executing the script.
C7_VisualizeAnswers200 ==
    \A r \in Requests :
        ( /\ req[r].route = "visualize"
          /\ req[r].pc = "done"
          /\ req[r].code # 400
          /\ sessions[config] = "running"
          /\ AllOk(req[r])
          /\ req[r].stderr = "" )
            => /\ req[r].code = 200
               /\ OpNames(OpsOf(req[r], {"write_file", "execute_script"}))
                      = <<"write_file", "execute_script">>

\* The error text a failed step leaves in the response.
ErrorsOf(st) ==
    IF st.op = "exists" THEN {"FileNotFoundError"}
    ELSE IF st.op = "retrieve" THEN {"APIError", "NotFoundError"}
    ELSE {"APIError"}

\* C8: in a POST /api/query request a failed step (lookup, create, local
\* file check, upload, command) is the last step the request issues, and the
\* request is answered 500 with that step's error.
C8_FailureEndsRequest ==
    \A r \in Requests :
        req[r].route = "query"
            => \A i \in 1..Len(req[r].steps) :
                   ~req[r].steps[i].ok
                       => /\ i = Len(req[r].steps)
                          /\ req[r].pc = "done"
                          /\ req[r].code = 500
                          /\ req[r].error \in ErrorsOf(req[r].steps[i])

\* C8 witness: a request whose create succeeded and whose second upload
\* failed is answered 500 with nothing issued after the failed upload.
C8_Witness ==
    \E r \in Requests :
        LET st == req[r].steps
        IN  /\ req[r].route = "query"
            /\ Len(st) = 4
            /\ st[2].op = "create" /\ st[2].ok
            /\ st[3].op = "upload" /\ st[3].ok
            /\ st[4].op = "upload" /\ ~st[4].ok
            /\ req[r].code = 500

\* C9: two requests that both saw the configured session absent have each
\* created a session when their constructions have ended without a failed
\* create: two new sessions exist and the process-wide id is one of them.
C9_BothAbsentBothCreate ==
    \A r1, r2 \in Requests :
        ( /\ r1 # r2
          /\ req[r1].seen = "absent" /\ req[r2].seen = "absent"
          /\ ConstructionEnded(req[r1]) /\ ConstructionEnded(req[r2])
          /\ \A r \in {r1, r2} : \A i \in 1..Len(req[r].steps) :
                 req[r].steps[i].op = "create" => req[r].steps[i].ok )
            => /\ Cardinality(NewSessions) >= 2
               /\ environ \in NewSessions
               /\ req[r1].devbox_id \in NewSessions
               /\ req[r2].devbox_id \in NewSessions
               /\ req[r1].devbox_id # req[r2].devbox_id

\* C10: two visualization requests with valid bodies and a running session,
\* answered without a failed remote step, have both written the script path
\* and each has executed the code of one of the two.
C10_BothWriteScript ==
    \A r1, r2 \in Requests :
        ( /\ r1 # r2
          /\ \A r \in {r1, r2} :
                 /\ req[r].route = "visualize"
                 /\ req[r].pc = "done"
                 /\ req[r].code # 400
                 /\ AllOk(req[r])
          /\ sessions[config] = "running" )
            => /\ script[config] \in {r1, r2}
               /\ req[r1].ran \in {r1, r2}
               /\ req[r2].ran \in {r1, r2}

\* ------------------------------------------------- C3: output extraction
Min(S) == CHOOSE m \in S : \A k \in S : m <= k
Max(S) == CHOOSE m \in S : \A k \in S : m >= k
Positions(t, c) == {i \in 1..Len(t) : t[i] = c}

\* The text has a '[' with a ']' somewhere after it.
HasPair(t) ==
    /\ Positions(t, "[") # {}
    /\ Positions(t, "]") # {}
    /\ Min(Positions(t, "[")) < Max(Positions(t, "]"))

\* The text from the first '[' to the last ']'.
Bracketed(t) == SubSeq(t, Min(Positions(t, "[")), Max(Positions(t, "]")))

Depth(s, i) ==
    Cardinality({j \in 1..i : s[j] = "["}) - Cardinality({j \in 1..i : s[j] = "]"})

NextToken(s, i) ==
    CHOOSE j \in (i + 1)..Len(s) :
        s[j] # " " /\ \A k \in (i + 1)..(j - 1) : s[k] = " "

MayFollow(a, b) ==
    CASE a = "[" -> b \in {"[", "1", "]"}
      [] a = "1" -> b \in {",", "]"}
      [] a = "," -> b \in {"1", "["}
      [] a = "]" -> b \in {",", "]"}
      [] OTHER -> FALSE

\* A text that starts with '[' and ends with ']' is a JSON array: the
\* brackets balance and close only at the end, and every token is followed
\* by one the grammar allows.
WellFormedArray(s) ==
    /\ Len(s) >= 2 /\ s[1] = "[" /\ s[Len(s)] = "]"
    /\ \A i \in 1..(Len(s) - 1) : Depth(s, i) >= 1
    /\ Depth(s, Len(s)) = 0
    /\ \A i \in 1..(Len(s) - 1) :
           s[i] # " " =>
               LET j == NextToken(s, i)
               IN  IF s[i] = "1" /\ s[j] = "1" THEN j = i + 1
                   ELSE MayFollow(s[i], s[j])

RECURSIVE DigitsOf(_)
DigitsOf(n) == IF n = 0 THEN <<>> ELSE Append(DigitsOf(n \div 10), "1")

RECURSIVE Serialize(_)
RECURSIVE SerializeItems(_, _)
Serialize(t) ==
    IF t.k = "num" THEN DigitsOf(t.n)
    ELSE <<"[">> \o SerializeItems(t.items, 1) \o <<"]">>

SerializeItems(xs, i) ==
    IF i > Len(xs) THEN <<>>
    ELSE Serialize(xs[i])
         \o (IF i < Len(xs) THEN <<",">> ELSE <<>>)
         \o SerializeItems(xs, i + 1)

Compact(s) == SelectSeq(s, LAMBDA c : c # " ")

Executed(q, op) ==
    /\ q.pc = "done"
    /\ q.steps # <<>>
    /\ q.steps[Len(q.steps)].op = op
    /\ q.steps[Len(q.steps)].ok

C5_StderrRaises ==
    \A r \in Requests :
        /\ Executed(req[r], "execute_script")
               => IF req[r].stderr # ""
                  THEN req[r].outcome = "raised" /\ req[r].error = "RuntimeError"
                  ELSE req[r].outcome = "returned"
                       /\ req[r].data = TextData(req[r].stdout)
        /\ req[r].outcome = "returned" => req[r].stderr = ""

\* C5 witness: the script printed a JSON array on stdout and a warning on
\* stderr, and the call raised.
C5_Witness ==
    \E r \in Requests :
        /\ Executed(req[r], "execute_script")
        /\ req[r].stdout = <<"[", "1", "]">>
        /\ req[r].stderr = "warning"
        /\ req[r].outcome = "raised"

\* ------------------------------------------ C11: analyze_data_structure
Range(f) == {f[i] : i \in DOMAIN f}

\* The names of the model that contain "date" or "time" in some case.
DateNamed == {NameSaleDate, NameTime}

\* C11: for a payload that is a list of records, a field of the first
\* record whose value is a number is listed as numeric (a boolean, an int to
\* isinstance, is listed too), a field is listed as date/time exactly when
\* its value is a string and its name contains "date" or "time" in any case,
\* and as categorical exactly when its value is any other string; the
\* time-series suggestion is in the output exactly when a date-like field
\* and a field listed as numeric are present.  Any other payload gets
\* neither a listing nor a suggestion.
C11_Classification ==
    \A r \in Requests :
        (req[r].pc = "done" /\ req[r].payload.shape # "none")
            => LET out == req[r].analysis
                   fields == req[r].payload.first
                   dateLike == {i \in 1..Len(fields) :
                                   fields[i].type = "str"
                                   /\ fields[i].name \in DateNamed}
               IN  /\ \A i \in 1..Len(fields) :
                          /\ fields[i].type \in {"int", "float"}
                                 => fields[i].name \in Range(out.numeric)
                          /\ fields[i].name \in Range(out.numeric)
                                 => fields[i].type \in {"int", "float", "bool"}
                          /\ fields[i].name \in Range(out.date)
                                 <=> i \in dateLike
                          /\ fields[i].name \in Range(out.categorical)
                                 <=> (fields[i].type = "str" /\ i \notin dateLike)
                   /\ "Time series plots for temporal analysis"
                          \in Range(out.suggestions)
                          <=> (dateLike # {} /\ out.numeric # <<>>)
                   /\ req[r].payload.shape # "records"
                          => out.numeric = <<>> /\ out.suggestions = <<>>

\* C11 witness: the record {sale_date: string, amount: float, region:
\* string} is listed as date/time, numeric and categorical, with the
\* time-series suggestion.
C11_Witness ==
    \E r \in Requests :
        /\ req[r].pc = "done"
        /\ req[r].payload.first =
               <<[name |-> NameSaleDate, type |-> "str"],
                 [name |-> NameAmount, type |-> "float"],
                 [name |-> NameRegion, type |-> "str"]>>
        /\ req[r].analysis.date = <<NameSaleDate>>
        /\ req[r].analysis.numeric = <<NameAmount>>
        /\ req[r].analysis.categorical = <<NameRegion>>
        /\ "Time series plots for temporal analysis"
               \in Range(req[r].analysis.suggestions)

\* ------------------------------------------------ C12: the adopted id
\* C12: after a request has created a session, its uploads and commands go
\* to the new id; the lookup of a request uses the id that was active in
\* the process when the request arrived (env_at_start: the configured id,
\* or the id of the session created last); and a request that arrived after
\* a session was created creates none.
C12_NewIdAdopted ==
    \A r \in Requests :
        req[r].route = "query"
            => LET st == req[r].steps
               IN  /\ \A i, j \in 1..Len(st) :
                          ( /\ i < j
                            /\ st[i].op = "create" /\ st[i].ok
                            /\ st[j].op \in {"upload", "execute_ls", "execute_query"} )
                              => st[j].id = st[i].id
                   /\ \A i \in 1..Len(st) :
                          st[i].op = "retrieve" => st[i].id = req[r].env_at_start
                   /\ req[r].env_at_start \in NewSessions
                          => OpsOf(req[r], {"create"}) = <<>>

\* ------------------------------------------- C13: order of a query request
QueryOrder ==
    {<<"retrieve", "upload", "upload", "upload", "upload",
       "execute_ls", "execute_query">>,
     <<"retrieve", "create", "upload", "upload", "upload", "upload",
       "execute_ls", "execute_query">>}

\* C13: in a POST /api/query request the query command is issued only after
\* the controller's construction has returned and the four required files
\* have been uploaded, in order, to the session the command runs in; and a
\* 200 answer is sent only after the query command has been executed.
C13_QueryAfterLifecycleAndUploads ==
    \A r \in Requests :
        req[r].route = "query"
            => LET st == req[r].steps
                   ups == OpsOf(req[r], {"upload"})
               IN  /\ \A i \in 1..Len(st) :
                          st[i].op = "execute_query"
                              => /\ i = Len(st)
                                 /\ OpNames(st) \in QueryOrder
                                 /\ \A j \in 1..(i - 1) : st[j].ok
                                 /\ req[r].constructed = "returned"
                                 /\ FilesOf(ups) = <<1, 2, 3, 4>>
                                 /\ \A j \in 1..Len(ups) : ups[j].id = st[i].id
                                 /\ uploaded[st[i].id] = FileIdx
                   /\ req[r].code = 200
                          => /\ st # <<>>
                             /\ st[Len(st)].op = "execute_query"
                             /\ st[Len(st)].ok

\* C13 witness: a request that created a session, uploaded the four files
\* and executed the query is answered 200.
C13_Witness ==
    \E r \in Requests :
        /\ req[r].code = 200
        /\ Len(req[r].steps) = 8
        /\ req[r].steps[2].op = "create"
        /\ req[r].steps[8].op = "execute_query"

\* --------------------------------------------- C14: stderr in the executors
\* C14: run_mcp_query returns the parsed array or the raw_output wrapper
\* that stdout alone decides, also when the command wrote to stderr, and
\* never raises for it; run_visualization_code raises whenever the script
\* wrote to stderr.
C14_StderrTreatedDifferently ==
    \A r \in Requests :
        /\ Executed(req[r], "execute_query")
               => /\ req[r].outcome = "returned"
                  /\ req[r].data.kind = "array"
                         <=> ( HasPair(req[r].stdout)
                               /\ WellFormedArray(Bracketed(req[r].stdout)) )
                  /\ req[r].data.kind # "array"
                         => req[r].data = RawOutput(req[r].stdout)
        /\ (Executed(req[r], "execute_script") /\ req[r].stderr # "")
               => req[r].outcome = "raised"

\* C14 witness: the query command and the script both printed a JSON array
\* on stdout and a warning on stderr; the query call returned the array and
\* the visualization call raised.
C14_Witness ==
    \E r1, r2 \in Requests :
        /\ Executed(req[r1], "execute_query")
        /\ req[r1].stdout = <<"[", "1", "]">>
        /\ req[r1].stderr = "warning"
        /\ req[r1].outcome = "returned"
        /\ req[r1].data = ArrayData(ArrTree(<<NumTree(1)>>))
        /\ Executed(req[r2], "execute_script")
        /\ req[r2].stdout = <<"[", "1", "]">>
        /\ req[r2].stderr = "warning"
        /\ req[r2].outcome = "raised"

====
